---- MODULE Spec2Model ----
(***************************************************************************)
(* Model of icmp-echo (src/src/main.rs): the argument parser (parse_arg    *)
(* and the two TryFrom<&str> validators) and the echo session of main():   *)
(* the try_fold over the sequence numbers 0..requests, each iteration      *)
(* pacing, building, sending and then racing a 5-second timer against one  *)
(* blocking socket read inside tokio::select!.                             *)
(*                                                                         *)
(* Time is a clock in milliseconds.  The socket's receive buffer is a      *)
(* queue the environment appends to at any moment; rcv_from takes its head *)
(* or blocks until the socket's read timeout.                              *)
(***************************************************************************)
EXTENDS Integers, Sequences, FiniteSets, TLC

VARIABLES
    pc,          \* position of main(): parse, pace, build, set_timeout, send, stamp,
                 \* select, await, done, failed
    count,       \* RequestsToSend
    interval,    \* TransmissionInterval, milliseconds
    sequence,    \* the fold's current item of 0..requests
    now,         \* the clock, milliseconds
    send_time,   \* Instant::now() taken after send_to (line 118)
    deadline,    \* deadline of the select!'s sleep(5 s)
    timeout,     \* the socket's read timeout (opts.timeout), None or ms
    rcv,         \* the select!'s receive branch: idle, pending, or how it was disabled
    queue,       \* the socket's receive buffer
    lines,       \* standard output, one record per println!
    result,      \* what main returns: running, Ok, PacketBuilding, Io
    sent,        \* history: every packet handed to send_to
    misses,      \* history: iterations ended by the timer
    delivered,   \* history: packets the network has delivered so far
    rcvFailed,   \* history: rcv_from has returned an error that is no timeout
    arg,         \* parse_arg's input text
    parsed       \* parse_arg's result

vars == <<pc, count, interval, sequence, now, send_time, deadline, timeout, rcv,
          queue, lines, result, sent, misses, delivered, rcvFailed, arg, parsed>>

sessionVars == <<pc, count, interval, sequence, now, send_time, deadline, timeout,
                 rcv, queue, lines, result, sent, misses, delivered, rcvFailed>>

parseVars == <<arg, parsed>>

-----------------------------------------------------------------------------
(* Bounds of the model *)

MaxCount == 2        \* sessions of 1..MaxCount requests
MaxQueue == 2        \* packets the receive buffer holds
MaxPackets == 2      \* packets the network delivers in one session
Slices == 2          \* clock steps the 5-second window is cut into
MaxFields == 4       \* comma-separated fields of an argument text
MaxAnswered == 6     \* sessions of 1..MaxAnswered requests against the answering transport

(* Program constants *)

MaxRequests == 10        \* line 24
MinInterval == 1         \* line 41
MaxInterval == 1000      \* line 38
Identifier == 5091       \* line 113
TimeoutSecs == 5         \* lines 115, 122
MillisPerSec == 1000     \* Duration::from_secs against Duration::from_millis
MicrosPerMilli == 1000   \* Duration::as_micros
U16Max == 65535          \* u16, lines 18 and 32
OctetMax == 255          \* Ipv4Addr, line 49

TimeoutMs == TimeoutSecs * MillisPerSec

None == <<>>

Some(x) == <<x>>

Min(a, b) == IF a <= b THEN a ELSE b

Last(s) == s[Len(s)]

Counts == 1..Min(MaxCount, MaxRequests)

(* The session only adds the interval to the clock (line 111), so it runs
   with the longest one accepted; the accepted range itself is covered by
   TransmissionInterval below. *)
Intervals == {MaxInterval}

Destination == "10.0.0.1"

-----------------------------------------------------------------------------
(* The network: what can land in the socket's receive buffer *)

(* an identifier of some other session *)
OtherIdentifier == Identifier + 1

EchoReply(from, identifier, seq) ==
    [typ |-> "EchoReply", from |-> from, identifier |-> identifier, sequence |-> seq]

Unreachable(from) ==
    [typ |-> "Unreachable", from |-> from, identifier |-> 0, sequence |-> 0]

Packets ==
    {EchoReply(Destination, Identifier, s) : s \in 0..(MaxCount - 1)}
        \cup {EchoReply("10.0.0.2", OtherIdentifier, 0), Unreachable("10.0.0.254")}

(* A buffered packet, with the history of its arrival: the iteration it
   arrived in, and whether that iteration's wait window was open. *)
Stamp(p, iteration, open) == [pkt |-> p, iteration |-> iteration, inWindow |-> open]

-----------------------------------------------------------------------------
(* The echo session: main(), lines 104-144 *)

Terminal == {"done", "failed"}

(* The state main() is in once the arguments are parsed and the socket is
   made (lines 105-107), for a request count drawn from counts. *)
SessionInit(counts) ==
    /\ pc = "pace"
    /\ count \in counts
    /\ interval \in Intervals
    /\ sequence = 0
    /\ now = 0
    /\ send_time = 0
    /\ deadline = 0
    /\ timeout = None
    /\ rcv = "idle"
    /\ queue = <<>>
    /\ lines = <<>>
    /\ result = "running"
    /\ sent = <<>>
    /\ misses = 0
    /\ delivered = 0
    /\ rcvFailed = FALSE

ParseIdle ==
    /\ arg = <<>>
    /\ parsed = [ok |-> FALSE, error |-> "none", message |-> "", value |-> 0]

Init == SessionInit(Counts) /\ ParseIdle

(* every request count parse_arg lets through *)
InitAnyCount == SessionInit(1..MaxRequests) /\ ParseIdle

InitAnswered == SessionInit(1..Min(MaxAnswered, MaxRequests)) /\ ParseIdle

(* NextIteration over the inclusive range 0..=requests *)
NextIterationBad(seq) ==
    /\ sequence' = seq + 1
    /\ rcv' = "idle"
    /\ IF seq + 1 > count
          THEN pc' = "done" /\ result' = "Ok"
          ELSE pc' = "pace" /\ result' = result

(* The fold takes the next item of 0..requests, or ends with Ok(socket),
   which lines 142-143 turn into Ok(()). *)
NextIteration(seq) ==
    /\ sequence' = seq + 1
    /\ rcv' = "idle"
    /\ IF seq + 1 >= count
          THEN pc' = "done" /\ result' = "Ok"
          ELSE pc' = "pace" /\ result' = result

(* Pace with no delay before the first send *)
PaceBad ==
    /\ pc = "pace"
    /\ now' = (IF sequence = 0 THEN now ELSE now + interval)
    /\ pc' = "build"
    /\ UNCHANGED <<count, interval, sequence, send_time, deadline, timeout, rcv,
                   queue, lines, result, sent, misses, delivered, rcvFailed, parseVars>>

(* line 111: sleep(interval) before every send *)
Pace ==
    /\ pc = "pace"
    /\ now' = now + interval
    /\ pc' = "build"
    /\ UNCHANGED <<count, interval, sequence, send_time, deadline, timeout, rcv,
                   queue, lines, result, sent, misses, delivered, rcvFailed, parseVars>>

(* line 113: with_echo_request(5091, sequence, payload) is Ok(packet) ... *)
BuildOk ==
    /\ pc = "build"
    /\ pc' = "set_timeout"
    /\ UNCHANGED <<count, interval, sequence, now, send_time, deadline, timeout,
                   rcv, queue, lines, result, sent, misses, delivered, rcvFailed, parseVars>>

(* BuildFail with the error noted and the fold carried on *)
BuildFailBad ==
    /\ pc = "build"
    /\ pc' = "pace"
    /\ sequence' = sequence + 1
    /\ result' = "PacketBuilding"
    /\ UNCHANGED <<count, interval, now, send_time, deadline, timeout,
                   rcv, queue, lines, sent, misses, delivered, rcvFailed, parseVars>>

(* ... or Err(IcmpPacketBuildError): the fold stops, lines 141-143 return
   Error::PacketBuilding. *)
BuildFail ==
    /\ pc = "build"
    /\ pc' = "failed"
    /\ result' = "PacketBuilding"
    /\ UNCHANGED <<count, interval, sequence, now, send_time, deadline, timeout,
                   rcv, queue, lines, sent, misses, delivered, rcvFailed, parseVars>>

(* line 115: socket.set_timeout(Some(Duration::from_secs(5))) *)
SetTimeout ==
    /\ pc = "set_timeout"
    /\ timeout' = Some(TimeoutMs)
    /\ pc' = "send"
    /\ UNCHANGED <<count, interval, sequence, now, send_time, deadline, rcv,
                   queue, lines, result, sent, misses, delivered, rcvFailed, parseVars>>

(* What line 118's .map(|_| ...) does with send_to's io::Result: drops it,
   so main goes on to Instant::now() and the select! whether the send
   succeeded or not. *)
AfterSend(ok) ==
    /\ pc' = "stamp"
    /\ result' = result

(* line 116: socket.send_to(address, packet) *)
Send(ok) ==
    /\ pc = "send"
    /\ sent' = Append(sent, [identifier |-> Identifier, sequence |-> sequence,
                             at |-> now, ok |-> ok])
    /\ AfterSend(ok)
    /\ UNCHANGED <<count, interval, sequence, now, send_time, deadline, timeout,
                   rcv, queue, lines, misses, delivered, rcvFailed, parseVars>>

(* RecordSendTime keeping the first iteration's Instant *)
RecordSendTimeBad ==
    /\ pc = "stamp"
    /\ send_time' = (IF sequence = 0 THEN now ELSE send_time)
    /\ pc' = "select"
    /\ UNCHANGED <<count, interval, sequence, now, deadline, timeout, rcv, queue,
                   lines, result, sent, misses, delivered, rcvFailed, parseVars>>

(* line 118: (socket, Instant::now()) *)
RecordSendTime ==
    /\ pc = "stamp"
    /\ send_time' = now
    /\ pc' = "select"
    /\ UNCHANGED <<count, interval, sequence, now, deadline, timeout, rcv, queue,
                   lines, result, sent, misses, delivered, rcvFailed, parseVars>>

(* lines 121-132: the select! creates its sleep(5 s) and its receive future *)
Select ==
    /\ pc = "select"
    /\ deadline' = now + TimeoutMs
    /\ rcv' = "pending"
    /\ pc' = "await"
    /\ UNCHANGED <<count, interval, sequence, now, send_time, timeout, queue,
                   lines, result, sent, misses, delivered, rcvFailed, parseVars>>

SendOk == Send(TRUE)

SendFail == Send(FALSE)

(* The pattern of lines 123-132: Ok((Icmpv4Packet { message: EchoReply {
   identifier: _, sequence, payload: _ }, .. }, address)). *)
Matches(p) == p.typ = "EchoReply"

(* Report printing the fold's item in place of the reply's sequence field *)
ReportBad(q) ==
    [address |-> q.pkt.from, sequence |-> sequence,
     elapsed |-> (now - send_time) * MicrosPerMilli,
     identifier |-> q.pkt.identifier, iteration |-> sequence,
     arrived |-> q.iteration, at |-> now]

(* lines 133-135: the line printed for a matched reply, "address,sequence,
   elapsed".  identifier, iteration (the iteration that printed it),
   arrived (the iteration the reply arrived in) and at (the clock at the
   receipt) are history, not printed. *)
Report(q) ==
    [address |-> q.pkt.from, sequence |-> q.pkt.sequence,
     elapsed |-> (now - send_time) * MicrosPerMilli,
     identifier |-> q.pkt.identifier, iteration |-> sequence,
     arrived |-> q.iteration, at |-> now]

(* RcvReply printing every echo reply the buffer holds *)
RcvReplyBad ==
    /\ pc = "await"
    /\ rcv = "pending"
    /\ queue # <<>>
    /\ Matches(Head(queue).pkt)
    /\ IF Len(queue) > 1 /\ Matches(queue[2].pkt)
          THEN /\ queue' = Tail(Tail(queue))
               /\ lines' = lines \o <<Report(queue[1]), Report(queue[2])>>
          ELSE /\ queue' = Tail(queue)
               /\ lines' = Append(lines, Report(Head(queue)))
    /\ NextIteration(sequence)
    /\ UNCHANGED <<count, interval, now, send_time, deadline, timeout, sent,
                   misses, delivered, rcvFailed, parseVars>>

(* rcv_from returns a packet the pattern matches: lines 133-136. *)
RcvReply ==
    /\ pc = "await"
    /\ rcv = "pending"
    /\ queue # <<>>
    /\ Matches(Head(queue).pkt)
    /\ queue' = Tail(queue)
    /\ lines' = Append(lines, Report(Head(queue)))
    /\ NextIteration(sequence)
    /\ UNCHANGED <<count, interval, now, send_time, deadline, timeout, sent,
                   misses, delivered, rcvFailed, parseVars>>

(* Refuted with the read timeout propagated as an Io error *)
RefutedBad(why) ==
    IF why = "timeout"
       THEN /\ pc' = "failed"
            /\ rcv' = "idle"
            /\ result' = "Io"
       ELSE /\ pc' = pc
            /\ rcv' = why
            /\ result' = result

(* Refuted re-awaiting the socket after a result the pattern refutes *)
RefutedRepoll(why) ==
    /\ pc' = pc
    /\ rcv' = "pending"
    /\ result' = result

(* What select! does with a branch whose result fails the pattern: the
   branch is disabled and the remaining branch is awaited. *)
Refuted(why) ==
    /\ pc' = pc
    /\ rcv' = why
    /\ result' = result

(* RcvOther restarting the 5-second window *)
RcvOtherBad ==
    /\ pc = "await"
    /\ rcv = "pending"
    /\ queue # <<>>
    /\ ~Matches(Head(queue).pkt)
    /\ queue' = Tail(queue)
    /\ deadline' = now + TimeoutMs
    /\ Refuted("other")
    /\ UNCHANGED <<count, interval, sequence, now, send_time, timeout,
                   lines, sent, misses, delivered, rcvFailed, parseVars>>

(* rcv_from returns a packet the pattern refutes. *)
RcvOther ==
    /\ pc = "await"
    /\ rcv = "pending"
    /\ queue # <<>>
    /\ ~Matches(Head(queue).pkt)
    /\ queue' = Tail(queue)
    /\ Refuted("other")
    /\ UNCHANGED <<count, interval, sequence, now, send_time, deadline, timeout,
                   lines, sent, misses, delivered, rcvFailed, parseVars>>

(* rcv_from returns Err: the read timeout passed with nothing to read. *)
RcvTimeout ==
    /\ pc = "await"
    /\ rcv = "pending"
    /\ queue = <<>>
    /\ timeout # None
    /\ now >= send_time + timeout[1]
    /\ Refuted("timeout")
    /\ UNCHANGED <<count, interval, sequence, now, send_time, deadline, timeout,
                   queue, lines, sent, misses, delivered, rcvFailed, parseVars>>

(* rcv_from returns Err of another kind. *)
RcvIoError ==
    /\ pc = "await"
    /\ rcv = "pending"
    /\ Refuted("ioerror")
    /\ rcvFailed' = TRUE
    /\ UNCHANGED <<count, interval, sequence, now, send_time, deadline, timeout,
                   queue, lines, sent, misses, delivered, parseVars>>

(* TimerFires with the elapsed timer returned as an error *)
TimerFiresBad ==
    /\ pc = "await"
    /\ rcv \notin {"idle", "pending"}
    /\ now >= deadline
    /\ misses' = misses + 1
    /\ pc' = "failed"
    /\ result' = "Io"
    /\ UNCHANGED <<count, interval, sequence, now, send_time, deadline, timeout,
                   rcv, queue, lines, sent, delivered, rcvFailed, parseVars>>

(* line 122: the sleep(5 s) completes.  The receive future is one blocking
   call, so it has returned before the timer can be seen to have fired. *)
TimerFires ==
    /\ pc = "await"
    /\ rcv \notin {"idle", "pending"}
    /\ now >= deadline
    /\ misses' = misses + 1
    /\ NextIteration(sequence)
    /\ UNCHANGED <<count, interval, now, send_time, deadline, timeout, queue,
                   lines, sent, delivered, rcvFailed, parseVars>>

(* Time passes inside the wait window.  A blocked rcv_from returns as soon as
   the buffer holds a packet, so no time passes while one is waiting. *)
Tick ==
    /\ pc = "await"
    /\ now < deadline
    /\ rcv = "pending" => queue = <<>>
    /\ now' = Min(now + (TimeoutMs \div Slices), deadline)
    /\ UNCHANGED <<pc, count, interval, sequence, send_time, deadline, timeout,
                   rcv, queue, lines, result, sent, misses, delivered, rcvFailed, parseVars>>

(* The network delivers a packet to the socket while the session waits: in
   the pacing sleep or in the wait window. *)
Deliver(p) ==
    /\ pc \in {"pace", "await"}
    /\ Len(queue) < MaxQueue
    /\ delivered < MaxPackets
    /\ queue' = Append(queue, Stamp(p, sequence, pc = "await" /\ now < deadline))
    /\ delivered' = delivered + 1
    /\ UNCHANGED <<pc, count, interval, sequence, now, send_time, deadline,
                   timeout, rcv, lines, result, sent, misses, rcvFailed, parseVars>>

DeliverAny == \E p \in Packets : Deliver(p)

Next ==
    \/ Pace
    \/ BuildOk
    \/ BuildFail
    \/ SetTimeout
    \/ SendOk
    \/ SendFail
    \/ RecordSendTime
    \/ Select
    \/ RcvReply
    \/ RcvOther
    \/ RcvTimeout
    \/ RcvIoError
    \/ TimerFires
    \/ Tick
    \/ DeliverAny

Spec == Init /\ [][Next]_vars

-----------------------------------------------------------------------------
(* The session against a transport that answers every request, inside its
   wait window, with one echo reply of the right identifier and the
   request's own sequence number, and delivers nothing else.  Every send
   succeeds, and the clock leaves room for the reply before the deadline. *)

FaithfulDeliver ==
    /\ pc = "await"
    /\ now < deadline
    /\ delivered = sequence
    /\ Last(sent).ok
    /\ queue' = Append(queue, Stamp(EchoReply(Destination, Identifier, Last(sent).sequence),
                                    sequence, TRUE))
    /\ delivered' = delivered + 1
    /\ UNCHANGED <<pc, count, interval, sequence, now, send_time, deadline,
                   timeout, rcv, lines, result, sent, misses, rcvFailed, parseVars>>

FaithfulTick ==
    /\ Tick
    /\ delivered = sequence
    /\ now' < deadline

FaithfulNext ==
    \/ Pace
    \/ BuildOk
    \/ SetTimeout
    \/ SendOk
    \/ RecordSendTime
    \/ Select
    \/ FaithfulDeliver
    \/ FaithfulTick
    \/ RcvReply

SpecFaithful == InitAnswered /\ [][FaithfulNext]_vars

-----------------------------------------------------------------------------
(* The session against a destination from which no packet is ever received.
   The runtime keeps driving the task and its timers: weak fairness. *)

SilentNext ==
    \/ Pace
    \/ BuildOk
    \/ SetTimeout
    \/ SendOk
    \/ SendFail
    \/ RecordSendTime
    \/ Select
    \/ RcvTimeout
    \/ RcvIoError
    \/ TimerFires
    \/ Tick

SpecSilent == InitAnyCount /\ [][SilentNext]_vars /\ WF_vars(SilentNext)

-----------------------------------------------------------------------------
(* The argument parser: lines 17-45 and 82-95.  A text is the sequence of
   its characters. *)

Digits == <<"0", "1", "2", "3", "4", "5", "6", "7", "8", "9">>

IsDigit(c) == \E d \in DOMAIN Digits : Digits[d] = c

DigitVal(c) == (CHOOSE d \in DOMAIN Digits : Digits[d] = c) - 1

(* str::split: the pieces between the separators, empty pieces included *)
RECURSIVE Split(_, _)
Split(text, sep) ==
    IF text = <<>>
       THEN << <<>> >>
       ELSE LET rest == Split(Tail(text), sep)
            IN  IF Head(text) = sep
                   THEN << <<>> >> \o rest
                   ELSE << <<Head(text)>> \o rest[1] >> \o Tail(rest)

(* Iterator::take *)
Take(s, n) == SubSeq(s, 1, Min(n, Len(s)))

Failure(kind, message) ==
    [ok |-> FALSE, error |-> kind, message |-> message, value |-> 0]

Success(v) == [ok |-> TRUE, error |-> "none", message |-> "", value |-> v]

(* the digits of u16::from_str, most significant first *)
RECURSIVE ParseDigits(_, _)
ParseDigits(ds, acc) ==
    IF ds = <<>>
       THEN Success(acc)
       ELSE IF ~IsDigit(Head(ds))
               THEN Failure("NumberParsing", "InvalidDigit")
               ELSE IF acc * 10 + DigitVal(Head(ds)) > U16Max
                       THEN Failure("NumberParsing", "PosOverflow")
                       ELSE ParseDigits(Tail(ds), acc * 10 + DigitVal(Head(ds)))

(* u16::from_str (lines 23, 37): decimal digits after an optional '+' *)
ParseU16(text) ==
    IF text = <<>>
       THEN Failure("NumberParsing", "Empty")
       ELSE IF text = <<"+">> \/ text = <<"-">>
               THEN Failure("NumberParsing", "InvalidDigit")
               ELSE IF Head(text) = "+"
                       THEN ParseDigits(Tail(text), 0)
                       ELSE ParseDigits(text, 0)

(* one octet of an Ipv4Addr: one to three digits, no leading zero, <= 255 *)
ParseOctet(text) ==
    IF Len(text) \notin 1..3 \/ \E i \in DOMAIN text : ~IsDigit(text[i])
       THEN Failure("AddressParsing", "invalid IPv4 address syntax")
       ELSE IF Len(text) > 1 /\ Head(text) = "0"
               THEN Failure("AddressParsing", "invalid IPv4 address syntax")
               ELSE LET v == ParseDigits(text, 0).value
                    IN  IF v > OctetMax
                           THEN Failure("AddressParsing", "invalid IPv4 address syntax")
                           ELSE Success(v)

(* str::parse::<Ipv4Addr> (line 91): four octets separated by dots *)
ParseIpv4(text) ==
    LET parts == Split(text, ".")
    IN  IF Len(parts) # 4 \/ \E i \in DOMAIN parts : ~ParseOctet(parts[i]).ok
           THEN Failure("AddressParsing", "invalid IPv4 address syntax")
           ELSE Success([i \in 1..4 |-> ParseOctet(parts[i]).value])

(* RequestsToSend with the upper guard written x >= 10 *)
RequestsToSendBad(text) ==
    LET x == ParseU16(text)
    IN  IF ~x.ok THEN x
        ELSE IF x.value >= MaxRequests
                THEN Failure("Uncategorized", "only ten or less requests are supported")
        ELSE IF x.value = 0
                THEN Failure("Uncategorized", "at least one ping must be requested")
        ELSE Success(x.value)

(* lines 20-29: TryFrom<&str> for RequestsToSend *)
RequestsToSend(text) ==
    LET x == ParseU16(text)
    IN  IF ~x.ok THEN x
        ELSE IF x.value > MaxRequests
                THEN Failure("Uncategorized", "only ten or less requests are supported")
        ELSE IF x.value = 0
                THEN Failure("Uncategorized", "at least one ping must be requested")
        ELSE Success(x.value)

(* TransmissionInterval without the zero guard *)
TransmissionIntervalBad(text) ==
    LET x == ParseU16(text)
    IN  IF ~x.ok THEN x
        ELSE IF x.value > MaxInterval
                THEN Failure("Uncategorized", "only one second or less intervals supported")
        ELSE Success(x.value)

(* lines 34-45: TryFrom<&str> for TransmissionInterval *)
TransmissionInterval(text) ==
    LET x == ParseU16(text)
    IN  IF ~x.ok THEN x
        ELSE IF x.value > MaxInterval
                THEN Failure("Uncategorized", "only one second or less intervals supported")
        ELSE IF x.value = 0
                THEN Failure("Uncategorized", "zero interval is not supported")
        ELSE Success(x.value)

Usage == "Usage of ICMP Ping requires an argument consisting of a comma-delimited list of IP address, number of requests, and ping interval"

(* line 83: split(",").take(3) *)
FieldsTaken == 3

(* lines 83-86: the first three comma-separated values; what follows a
   third comma is never looked at *)
ArgFields(text) == Take(Split(text, ","), FieldsTaken)

(* parse_arg parsing each field as soon as it is taken, before the third
   field is known to exist *)
parse_argBad(text) ==
    LET fields == ArgFields(text)
        destination == ParseIpv4(fields[1])
    IN  IF ~destination.ok THEN destination
        ELSE IF Len(fields) < 2 THEN Failure("Uncategorized", Usage)
        ELSE LET requests == RequestsToSend(fields[2])
             IN  IF ~requests.ok THEN requests
                 ELSE IF Len(fields) < FieldsTaken THEN Failure("Uncategorized", Usage)
                 ELSE LET ival == TransmissionInterval(fields[3])
                      IN  IF ~ival.ok THEN ival
                          ELSE Success([destination |-> destination.value,
                                        requests |-> requests.value,
                                        interval |-> ival.value])

(* lines 82-95 *)
parse_arg(text) ==
    LET fields == ArgFields(text)
    IN  IF Len(fields) < FieldsTaken
           THEN Failure("Uncategorized", Usage)
           ELSE LET destination == ParseIpv4(fields[1])
                    requests == RequestsToSend(fields[2])
                    ival == TransmissionInterval(fields[3])
                IN  IF ~destination.ok THEN destination
                    ELSE IF ~requests.ok THEN requests
                    ELSE IF ~ival.ok THEN ival
                    ELSE Success([destination |-> destination.value,
                                  requests |-> requests.value,
                                  interval |-> ival.value])

(* The argument texts the parser is run on *)

RECURSIVE Decimal(_)
Decimal(n) == IF n < 10 THEN <<Digits[n + 1]>> ELSE Decimal(n \div 10) \o <<Digits[(n % 10) + 1]>>

RECURSIVE Join(_, _)
Join(fields, sep) ==
    IF Len(fields) = 1
       THEN fields[1]
       ELSE fields[1] \o <<sep>> \o Join(Tail(fields), sep)

Dotted(octets) == Join([i \in DOMAIN octets |-> Decimal(octets[i])], ".")

AddressTexts ==
    {Dotted(<<10, 0, 0, 1>>), Dotted(<<192, 0, 2, 256>>), Dotted(<<10, 0, 1>>), <<"h", "o", "s", "t">>}

CountTexts ==
    {Decimal(n) : n \in {0, 1, 5, MaxRequests, MaxRequests + 1, U16Max + 1}}
        \cup {<<>>, <<"x">>, <<"+", "3">>, <<"-", "1">>, <<"0", "7">>}

IntervalTexts ==
    {Decimal(n) : n \in {0, 1, 100, MaxInterval, MaxInterval + 1}} \cup {<<>>, <<"1", "s">>}

ExtraTexts == {<<>>, Decimal(7), <<"z">>}

FieldChoices(i) ==
    IF i = 1 THEN AddressTexts
    ELSE IF i = 2 THEN CountTexts
    ELSE IF i = 3 THEN IntervalTexts
    ELSE ExtraTexts

FieldLists ==
    UNION {{fs \in [1..n -> AddressTexts \cup CountTexts \cup IntervalTexts \cup ExtraTexts] :
              \A i \in 1..n : fs[i] \in FieldChoices(i)} : n \in 1..MaxFields}

ArgTexts == {Join(fs, ",") : fs \in FieldLists}

Unparsed == [ok |-> FALSE, error |-> "none", message |-> "", value |-> 0]

(* lines 105-106: Options::from_args() runs parse_arg on the argument; its
   error ends the process, its Arg starts the session. *)
ParseInit ==
    /\ arg \in ArgTexts
    /\ parsed = Unparsed
    /\ pc = "parse"
    /\ count = 0
    /\ interval = 0
    /\ sequence = 0
    /\ now = 0
    /\ send_time = 0
    /\ deadline = 0
    /\ timeout = None
    /\ rcv = "idle"
    /\ queue = <<>>
    /\ lines = <<>>
    /\ result = "running"
    /\ sent = <<>>
    /\ misses = 0
    /\ delivered = 0
    /\ rcvFailed = FALSE

ParseArg ==
    /\ pc = "parse"
    /\ parsed' = parse_arg(arg)
    /\ IF parsed'.ok
          THEN /\ pc' = "pace"
               /\ count' = parsed'.value.requests
               /\ interval' = parsed'.value.interval
               /\ result' = result
          ELSE /\ pc' = "failed"
               /\ result' = parsed'.error
               /\ UNCHANGED <<count, interval>>
    /\ UNCHANGED <<arg, sequence, now, send_time, deadline, timeout, rcv, queue,
                   lines, sent, misses, delivered, rcvFailed>>

ParseNext == ParseArg

SpecParse == ParseInit /\ [][ParseNext]_vars

-----------------------------------------------------------------------------
(* The two validators run on one field text each: lines 20-29 and 34-45 *)

FieldTexts ==
    {Decimal(n) : n \in 0..(MaxInterval + 1)}
        \cup {Decimal(n) : n \in (U16Max - 1)..(U16Max + 2)}
        \cup {Decimal(U16Max * 2), Decimal(U16Max * 10)}
        \cup {<<"0">> \o Decimal(n) : n \in {0, 7, MaxRequests, MaxRequests + 1, MaxInterval}}
        \cup {<<>>, <<"+", "3">>, <<"-", "1">>, <<"x">>, <<"1", "s">>}

FieldInit ==
    /\ arg \in FieldTexts
    /\ parsed = Unparsed
    /\ pc = "field"
    /\ count = 0
    /\ interval = 0
    /\ sequence = 0
    /\ now = 0
    /\ send_time = 0
    /\ deadline = 0
    /\ timeout = None
    /\ rcv = "idle"
    /\ queue = <<>>
    /\ lines = <<>>
    /\ result = "running"
    /\ sent = <<>>
    /\ misses = 0
    /\ delivered = 0
    /\ rcvFailed = FALSE

(* line 92: requests.try_into() *)
ApplyRequests ==
    /\ pc = "field"
    /\ parsed' = RequestsToSend(arg)
    /\ pc' = "requests"
    /\ UNCHANGED <<arg, count, interval, sequence, now, send_time, deadline,
                   timeout, rcv, queue, lines, result, sent, misses, delivered,
                   rcvFailed>>

(* line 93: interval.try_into() *)
ApplyInterval ==
    /\ pc = "field"
    /\ parsed' = TransmissionInterval(arg)
    /\ pc' = "interval"
    /\ UNCHANGED <<arg, count, interval, sequence, now, send_time, deadline,
                   timeout, rcv, queue, lines, result, sent, misses, delivered,
                   rcvFailed>>

FieldNext ==
    \/ ApplyRequests
    \/ ApplyInterval

SpecField == FieldInit /\ [][FieldNext]_vars

-----------------------------------------------------------------------------
(* Claims *)

(* a text that is a non-negative decimal integer, and the integer it writes *)
IsDecimal(text) == text # <<>> /\ \A i \in DOMAIN text : IsDigit(text[i])

RECURSIVE DecValue(_)
DecValue(text) ==
    IF text = <<>>
       THEN 0
       ELSE DecValue(SubSeq(text, 1, Len(text) - 1)) * 10 + DigitVal(Last(text))

IsOwnReply(p) == p.typ = "EchoReply" /\ p.identifier = Identifier

(* C1: during one wait window, a packet that is no echo reply is discarded
   and the wait goes on: an echo reply that then arrives before the timer
   elapses is reported in that same iteration, so the iteration does not end
   as a miss while such a reply is in the socket. *)
C1_LaterReplyReportedInSameWindow ==
    [][(/\ pc = "await"
        /\ rcv = "other"
        /\ \E i \in DOMAIN queue :
              /\ IsOwnReply(queue[i].pkt)
              /\ queue[i].iteration = sequence
              /\ queue[i].inWindow)
          => ~(sequence' = sequence + 1 /\ lines' = lines)]_vars

(* C2: an echo reply whose identifier is not 5091 is never reported as an
   output line. *)
C2_MismatchedIdentifierNeverReported ==
    \A i \in DOMAIN lines : lines[i].identifier = Identifier

(* C3: once rcv_from has failed with an I/O error that is no timeout, the
   session has aborted with an Io error. *)
C3_ReceiveErrorAborts ==
    rcvFailed => pc = "failed" /\ result = "Io"

(* C4: once send_to has failed with an I/O error, the session has aborted
   with an Io error: it does not wait for a reply or run a later iteration. *)
C4_SendErrorAborts ==
    (\E i \in DOMAIN sent : ~sent[i].ok) => pc = "failed" /\ result = "Io"

(* C5: against the answering transport, the lines printed so far carry the
   sequence numbers 0, 1, ..., k-1 in this order, line i printed by iteration
   i for the reply to request i, and a session of count requests that has
   finished printed exactly count lines. *)
C5_EveryRequestReportedInOrder ==
    /\ Len(lines) <= count
    /\ \A i \in DOMAIN lines :
          /\ lines[i].sequence = i - 1
          /\ lines[i].iteration = i - 1
          /\ lines[i].identifier = Identifier
    /\ pc = "done" => Len(lines) = count /\ Len(sent) = count /\ result = "Ok"
    /\ pc \in {"pace", "build", "set_timeout", "send"} => Len(lines) = sequence
    /\ pc # "failed"

C5_Witness ==
    /\ pc = "done"
    /\ count = Min(MaxAnswered, MaxRequests)
    /\ Len(lines) = count
    /\ \A i \in DOMAIN lines : lines[i].sequence = i - 1

(* C6: the sequence numbers handed to send_to are 0, 1, ..., k-1 in this
   order in every state, k <= count, and k = count when the session has run
   to completion. *)
C6_SentIsPrefixOfRange ==
    /\ Len(sent) <= count
    /\ \A i \in DOMAIN sent : sent[i].sequence = i - 1
    /\ pc = "done" => Len(sent) = count

C6_Witness ==
    /\ pc = "done"
    /\ count = MaxCount
    /\ Len(sent) = count

(* C7: when no packet is ever received, nothing is printed and the session
   still terminates: it reaches its finished state with every one of its
   count iterations ended by the timer. *)
C7_SilentSessionTerminates ==
    /\ [](lines = <<>>)
    /\ <>(/\ pc = "done"
          /\ result = "Ok"
          /\ sequence = count
          /\ misses = count
          /\ lines = <<>>)

C7_Witness ==
    /\ pc = "done"
    /\ count = MaxRequests
    /\ misses = count
    /\ lines = <<>>

(* C8: a step that ends an iteration by the timer is no error: it moves the
   fold to sequence + 1 and leaves the result alone (or completes the
   session with Ok); and a session that has run all its iterations returned
   Ok, with every iteration a hit or a miss. *)
C8_TimeoutIsNotAnError ==
    /\ [](pc = "done" =>
            /\ result = "Ok"
            /\ sequence = count
            /\ Len(lines) + misses = count)
    /\ [][misses' # misses =>
            /\ sequence' = sequence + 1
            /\ pc' = (IF sequence' = count THEN "done" ELSE "pace")
            /\ result' = (IF sequence' = count THEN "Ok" ELSE "running")]_vars

C8_Witness ==
    /\ pc = "done"
    /\ result = "Ok"
    /\ misses >= 1
    /\ Len(lines) >= 1

(* C9: when the receive of iteration sequence takes an echo reply whose
   sequence field differs from sequence, a line is printed that carries the
   reply's own sequence number and the time since this iteration's send. *)
C9_ForeignSequenceReportedAsIs ==
    [][(/\ pc = "await"
        /\ rcv = "pending"
        /\ queue # <<>>
        /\ Head(queue).pkt.typ = "EchoReply"
        /\ Head(queue).pkt.sequence # sequence
        /\ queue' = Tail(queue))
          => /\ Len(lines') = Len(lines) + 1
             /\ Last(lines').sequence = Head(queue).pkt.sequence
             /\ Last(sent).sequence = sequence
             /\ Last(lines').elapsed = (now - Last(sent).at) * MicrosPerMilli]_vars

(* a reply to an earlier request, arrived after that request's iteration
   had ended, printed by a later iteration *)
C9_Witness ==
    \E i \in DOMAIN lines :
        /\ lines[i].identifier = Identifier
        /\ lines[i].sequence < lines[i].arrived
        /\ lines[i].sequence < lines[i].iteration

(* C10: parse_arg succeeds only on a text of exactly three comma-separated
   fields. *)
C10_OnlyThreeFieldsAccepted ==
    parsed.ok => Len(Split(arg, ",")) = FieldsTaken

(* C11: a count field that is a non-negative decimal integer is accepted if
   and only if its value is in 1..10, and an accepted count is that value. *)
C11_CountAcceptedIffInRange ==
    (pc = "requests" /\ IsDecimal(arg)) =>
        /\ parsed.ok <=> DecValue(arg) \in 1..MaxRequests
        /\ parsed.ok => parsed.value = DecValue(arg)

C11_Witness ==
    /\ pc = "requests"
    /\ arg = Decimal(MaxRequests)
    /\ parsed.ok
    /\ parsed.value = MaxRequests

(* C12: a rejected count is rejected with the message of its value: 0 with
   the 'at least one' validation error, every value above 10, the values of
   65536 and above included, with the 'ten or less' validation error. *)
C12_RejectedCountMessage ==
    (pc = "requests" /\ IsDecimal(arg)) =>
        /\ DecValue(arg) = 0 =>
              /\ ~parsed.ok
              /\ parsed.error = "Uncategorized"
              /\ parsed.message = "at least one ping must be requested"
        /\ DecValue(arg) > MaxRequests =>
              /\ ~parsed.ok
              /\ parsed.error = "Uncategorized"
              /\ parsed.message = "only ten or less requests are supported"

(* C13: an interval field that is a non-negative decimal integer is accepted
   if and only if its value is in 1..1000, and an accepted interval is that
   number of milliseconds. *)
C13_IntervalAcceptedIffInRange ==
    (pc = "interval" /\ IsDecimal(arg)) =>
        /\ parsed.ok <=> DecValue(arg) \in MinInterval..MaxInterval
        /\ parsed.ok => parsed.value = DecValue(arg)

C13_Witness ==
    /\ pc = "interval"
    /\ arg = Decimal(MaxInterval)
    /\ parsed.ok
    /\ parsed.value = MaxInterval

(* C14: a text of fewer than three comma-separated fields is rejected with
   the usage error whatever its fields hold, never with AddressParsing or
   NumberParsing. *)
C14_FewerFieldsIsUsageError ==
    (pc # "parse" /\ Len(Split(arg, ",")) < FieldsTaken) =>
        /\ ~parsed.ok
        /\ parsed.error = "Uncategorized"
        /\ parsed.message = Usage
        /\ pc = "failed"

(* a two-field text whose address and count are both malformed *)
C14_Witness ==
    /\ pc = "failed"
    /\ Len(Split(arg, ",")) = 2
    /\ ~ParseIpv4(Split(arg, ",")[1]).ok
    /\ ~ParseU16(Split(arg, ",")[2]).ok
    /\ parsed.message = Usage

(* C15: the steps of an iteration occur in the order pace, build, set the
   read timeout, send, record send_time, await: at each position the earlier
   steps have acted and the later ones have not.  Every send, the first
   included, comes at least interval after the send before it (or after the
   start), and the pacing of an iteration begins only when the wait before
   it has resolved. *)
C15_StepsInOrder ==
    /\ pc = "pace" =>
          /\ rcv = "idle"
          /\ Len(sent) = sequence
          /\ Len(lines) + misses = sequence
    /\ pc = "build" =>
          /\ Len(sent) = sequence
          /\ now >= (IF sequence = 0 THEN 0 ELSE Last(sent).at) + interval
    /\ pc = "set_timeout" =>
          /\ Len(sent) = sequence
          /\ sequence = 0 => timeout = None
    /\ pc = "send" =>
          /\ timeout = Some(TimeoutMs)
          /\ Len(sent) = sequence
    /\ pc = "stamp" =>
          /\ Len(sent) = sequence + 1
          /\ Last(sent).sequence = sequence
          /\ send_time < Last(sent).at
    /\ pc = "select" =>
          /\ send_time = Last(sent).at
          /\ rcv = "idle"
          /\ deadline < send_time + TimeoutMs
    /\ pc = "await" =>
          /\ rcv # "idle"
          /\ Len(sent) = sequence + 1
          /\ send_time = Last(sent).at
          /\ deadline = send_time + TimeoutMs
          /\ timeout = Some(TimeoutMs)
    /\ \A i \in DOMAIN sent :
          sent[i].at >= (IF i = 1 THEN 0 ELSE sent[i - 1].at) + interval

(* the second iteration has paced, sent and is waiting *)
C15_Witness ==
    /\ pc = "await"
    /\ sequence = 1
    /\ Len(sent) = 2
    /\ sent[2].at >= sent[1].at + interval

(* C16: every printed elapsed time is >= 0 and is the time from the send of
   the iteration that printed the line to the receipt, in microseconds, so
   it holds no time of an earlier iteration. *)
C16_ElapsedIsThisIterationsRoundTrip ==
    \A i \in DOMAIN lines :
        /\ lines[i].elapsed >= 0
        /\ lines[i].iteration + 1 \in DOMAIN sent
        /\ lines[i].elapsed =
              (lines[i].at - sent[lines[i].iteration + 1].at) * MicrosPerMilli

(* a reply printed after a positive time, by an iteration that follows a
   timed-out one *)
C16_Witness ==
    \E i \in DOMAIN lines :
        /\ lines[i].iteration >= 1
        /\ lines[i].elapsed > 0
        /\ misses >= 1

(* C17: the deadline of an iteration is fixed when its wait begins, 5
   seconds after the send, whatever arrives during the window; the wait
   never runs past it, and the iteration has ended by it. *)
C17_DeadlineIsFixed ==
    /\ pc = "await" =>
          /\ deadline = Last(sent).at + TimeoutMs
          /\ now <= deadline
    /\ (pc \in {"pace", "done"} /\ sequence >= 1) =>
          /\ deadline = Last(sent).at + TimeoutMs
          /\ now <= deadline

(* a packet that is no echo reply was read in the window, and the wait has
   reached the deadline fixed at its start *)
C17_Witness ==
    /\ pc = "await"
    /\ rcv = "other"
    /\ now = deadline
    /\ deadline = send_time + TimeoutMs

(* C18: when the session's result is PacketBuilding it has stopped at the
   failing iteration: nothing was sent for that iteration, no later
   iteration was run, and the output holds exactly one line for each earlier
   iteration that was a hit. *)
C18_BuildFailureIsFatal ==
    /\ result = "PacketBuilding" =>
          /\ pc = "failed"
          /\ sequence < count
          /\ Len(sent) = sequence
          /\ Len(lines) + misses = sequence
          /\ \A i \in DOMAIN lines : lines[i].iteration < sequence
    /\ pc = "failed" => result = "PacketBuilding"

C18_Witness ==
    /\ pc = "failed"
    /\ result = "PacketBuilding"
    /\ sequence >= 1
    /\ Len(lines) >= 1

(* C19: once the receive of an iteration has returned something that is no
   echo reply, the socket is not read again in that iteration: no packet
   leaves the buffer, the receive branch is not re-armed, and the iteration
   ends only by the timer, at its deadline, as a miss.  A pending receive
   takes one packet at most, and having taken it is pending no more. *)
C19_OneReadPerIteration ==
    [][/\ (pc = "await" /\ rcv \notin {"idle", "pending"}) =>
             /\ Len(queue') >= Len(queue)
             /\ SubSeq(queue', 1, Len(queue)) = queue
             /\ rcv' \in {rcv, "idle"}
             /\ sequence' # sequence =>
                   /\ now >= deadline
                   /\ misses' = misses + 1
                   /\ lines' = lines
       /\ (pc = "await" /\ rcv = "pending" /\ Len(queue') < Len(queue)) =>
             /\ queue' = Tail(queue)
             /\ rcv' # "pending"
       /\ pc # "await" => Len(queue') >= Len(queue)]_vars

(* iteration 0 ended as a miss with a packet that arrived in its window
   still unread *)
C19_Witness ==
    /\ pc = "pace"
    /\ sequence = 1
    /\ misses = 1
    /\ queue # <<>>
    /\ Head(queue).iteration = 0
    /\ Head(queue).inWindow

(* C20: every ended iteration is a hit or a miss, never both, and a hit
   prints one line: the lines come from distinct iterations, and their
   number is at most the number of requests sent and at most count. *)
C20_OneOutcomePerIteration ==
    /\ Len(lines) + misses = sequence
    /\ \A i, j \in DOMAIN lines : i < j => lines[i].iteration < lines[j].iteration
    /\ Len(lines) <= Len(sent)
    /\ Len(lines) <= count

(* a hit taken while a second echo reply was in the buffer *)
C20_Witness ==
    /\ lines # <<>>
    /\ sequence = Last(lines).iteration + 1
    /\ queue # <<>>
    /\ Head(queue).pkt.typ = "EchoReply"
    /\ Head(queue).iteration <= Last(lines).arrived

====
